---- MODULE Spec2Model ----
(***************************************************************************)
(* The course-creator pipeline (researcher -> judge -> checker inside a    *)
(* bounded loop, inside a sequential pipeline) and the SSE bridge of       *)
(* GET /api/run/stream that forwards its events to one observer, and the  *)
(* handler of POST /api/sessions.                                          *)
(*                                                                         *)
(* A request is a record rq[r].  Its field pc is the await on which the    *)
(* handler of apps/api/src/server.ts is suspended; the fields rstate,      *)
(* stage, iter, shouldExit and loop    are the position of the async       *)
(* generator runner.runAsync(...) that the handler iterates.               *)
(***************************************************************************)
EXTENDS Integers, Sequences, FiniteSets, TLC

VARIABLES
    store,      \* sessionService: session key -> NoSession or [jo, log]
    rq,         \* request id -> the state of one call of the stream handler
    maxIter,    \* LoopAgent.maxIterations of research_loop
    post,       \* the state of one call of the handler of POST /api/sessions
    client      \* the web client (App.tsx): its log and its EventSource

vars == <<store, rq, maxIter, post, client>>

----------------------------------------------------------------------------
(* Bounds of the model *)

\* occurrences followed, in all and over all requests, of: a tick of the keep-alive
\* timer, an event an LlmAgent yields before its final response (function
\* call, function response), a snapshot read that throws
MaxIrregular == 1
\* largest maxIterations the generalised loop specification draws
MaxN == 3
\* maxIterations of the loop in the specifications with two requests
TwoN == 1
\* most log lines the web client makes of one frame (text, tool calls, tool
\* responses, escalate, judge_output)
MaxOut == 3

(* Program constants *)

\* research_loop = new LoopAgent({ ..., maxIterations: 3 })
maxIterations == 3
\* const id = z.string().min(1).max(128)
IdMax == 128
\* q: z.string().min(1).max(2000)
QMax == 2000
\* setLines((prev) => [...prev.slice(-1000), ...out])
LineCap == 1000

----------------------------------------------------------------------------
(* Values *)

ReqIds == {1, 2}
\* "G" is the session whose id the service generates when it is given none
SessionKeys == {"A", "B", "G"}
NoSession == [absent |-> TRUE]

\* state['judge_output'] as the checker sees it: undefined, {status:'pass'},
\* {status:'fail'}, or an object with no status / another status
JudgeOutputs == {"absent", "pass", "fail", "other"}
\* what an event of the judge merges under outputKey: nothing, or an output
\* (JudgeFeedbackSchema: status is 'pass' or 'fail')
JudgeDeltas == {"none", "pass", "fail"}

Leaves == {"researcher", "judge"}

NoEvent == [run |-> 0, author |-> "none", final |-> FALSE, delta |-> "none",
            escalate |-> FALSE]

\* an event left in the log of an existing session by an earlier run
OldEvent == [run |-> 0, author |-> "checker", final |-> TRUE, delta |-> "none",
             escalate |-> FALSE]

\* req.query: the lengths of the strings userId, sessionId and q (-1: the
\* parameter is missing), what model is (absent, a string, or the array that
\* a repeated parameter gives), the text of maxIterations ("absent" if
\* missing), and the session the (userId, sessionId) pair names
Query(u, s, n, m, x) ==
    [userId |-> u, sessionId |-> s, q |-> n, model |-> m,
     maxIterations |-> x, key |-> "A"]

QueryInputs ==
    { Query(1, 1, 1, "absent", "absent"),
      Query(0, 1, 1, "absent", "absent"),
      Query(1, IdMax + 1, 1, "absent", "absent"),
      Query(1, 1, QMax + 1, "absent", "absent"),
      Query(1, 1, -1, "absent", "absent") }

\* the queries of the schema tests and the limits: one parameter away from
\* a valid query at a time, and the query with everything at its limit
WideQueryInputs ==
    { Query(u, 1, 1, "absent", "absent") : u \in {-1, 0, 1, IdMax + 1} }
    \cup { Query(1, s, 1, "absent", "absent") : s \in {-1, 0, IdMax + 1} }
    \cup { Query(1, 1, n, "absent", "absent") : n \in {-1, 0, QMax, QMax + 1} }
    \cup { Query(1, 1, 1, "array", "absent") }
    \cup { Query(1, 1, 1, "absent", x) : x \in {"", "abc"} }
    \cup { Query(IdMax, IdMax, QMax, "string", "3") }
    \cup { Query(1, 1, 1, "string", "1"), Query(1, 1, 1, "absent", "5") }

\* req.body of POST /api/sessions: the lengths of userId and sessionId (-1:
\* missing) and the session that createSession is asked for
Body(u, s) ==
    [userId |-> u, sessionId |-> s, key |-> IF s = -1 THEN "G" ELSE "B"]

BodyInputs ==
    { Body(u, -1) : u \in {-1, 0, 1, IdMax, IdMax + 1} }
    \cup { Body(1, s) : s \in {0, 1, IdMax, IdMax + 1} }
    \cup { Body(IdMax, IdMax) }

----------------------------------------------------------------------------
(* schemas.ts *)

\* (mutant) the upper limit is exclusive
IdOk_Exclusive(len) == len >= 1 /\ len < IdMax

\* const id = z.string().min(1).max(128)
IdOk(len) == len >= 1 /\ len <= IdMax

\* z.coerce: Number(text) for the texts the inputs use
CoerceNumber(text) ==
    CASE text = "3" -> [nan |-> FALSE, value |-> 3]
      [] text = "1" -> [nan |-> FALSE, value |-> 1]
      [] text = "5" -> [nan |-> FALSE, value |-> 5]
      [] text = ""  -> [nan |-> FALSE, value |-> 0]
      [] OTHER      -> [nan |-> TRUE,  value |-> 0]

\* RunStreamQuery.safeParse(req.query).success
RunStreamQueryOk(query) ==
    /\ IdOk(query.userId)
    /\ IdOk(query.sessionId)
    /\ query.q >= 1 /\ query.q <= QMax
    /\ query.model \in {"absent", "string"}
    /\ \/ query.maxIterations = "absent"
       \/ ~CoerceNumber(query.maxIterations).nan

\* SessionCreateBody.safeParse(req.body).success
SessionCreateBodyOk(body) ==
    /\ IdOk(body.userId)
    /\ body.sessionId = -1 \/ IdOk(body.sessionId)

----------------------------------------------------------------------------
(* Frames written to the response with res.write *)

\* res.write('retry: 5000\n\n')
PreambleFrame(flag) ==
    [kind |-> "preamble", ev |-> 0, author |-> "none", escalate |-> FALSE,
     jo |-> "absent", aborted |-> flag]

\* setInterval(() => res.write(': keepalive\n\n'), 15000)
PingFrame(flag) ==
    [kind |-> "ping", ev |-> 0, author |-> "none", escalate |-> FALSE,
     jo |-> "absent", aborted |-> flag]

\* (mutant) the frame does not carry the escalate flag of the event
DataFrame_NoEscalate(e, n, jo, flag) ==
    [kind |-> "data", ev |-> n, author |-> e.author, escalate |-> FALSE,
     jo |-> jo, aborted |-> flag]

\* send({ author, text, calls, responses, escalate, judge_output, reqId })
\* ev is the position of the event among the events the run has yielded
DataFrame(e, n, jo, flag) ==
    [kind |-> "data", ev |-> n, author |-> e.author, escalate |-> e.escalate,
     jo |-> jo, aborted |-> flag]

\* send({ error: (streamErr as Error).message, code: 'stream_error', reqId })
ErrorFrame(flag) ==
    [kind |-> "error", ev |-> 0, author |-> "none", escalate |-> FALSE,
     jo |-> "absent", aborted |-> flag]

----------------------------------------------------------------------------
(* The state of one request before the handler has run *)

NewRequest(query) ==
    [ pc |-> "new",              \* where the handler is suspended
      query |-> query,           \* req.query
      status |-> 0,              \* HTTP status written (0: none yet)
      jsonError |-> "none",      \* code of the JSON error body sent by sendError
      frames |-> << >>,          \* what res.write has written, in order
      ended |-> FALSE,           \* res.end() has been called
      pingArmed |-> FALSE,       \* the setInterval timer is set and not cleared
      pings |-> 0,               \* ticks of the timer so far
      listening |-> FALSE,       \* req.on('close', ...) has been registered
      connClosed |-> FALSE,      \* the observer's connection has closed
      aborted |-> FALSE,         \* let aborted
      eventCount |-> 0,          \* let eventCount
      reason |-> "completed",    \* let reason
      cur |-> NoEvent,           \* the event the for-await loop is handling
      rstate |-> "notStarted",   \* the generator: notStarted, running, done,
                                 \*   failed (threw), returned (ended by break)
      iter |-> 0,                \* LoopAgent: body passes completed
      stage |-> "researcher",    \* the sub-agent that yields next
      extras |-> 0,              \* events before a final response so far
      readFailures |-> 0,        \* snapshot reads that threw so far
      shouldExit |-> FALSE,      \* LoopAgent: the last event carried escalate
      loop |-> "Running",        \* Running, Escalated or Exhausted
      ctxJo |-> "absent",        \* ctx.session.state['judge_output']
      startJo |-> "absent",      \* its value when the Runner loaded the session
      failedPass |-> 0,          \* the body pass in which a delegation threw
                                 \*   (0: none did)
      produced |-> 0,            \* events the run has yielded
      yieldedAtClose |-> -1 ]    \* produced when the close callback ran

\* a request that is never made
NoRequest == [NewRequest(CHOOSE x \in QueryInputs : RunStreamQueryOk(x))
                 EXCEPT !.pc = "none"]

\* a call of POST /api/sessions before the handler has run
NewPost(body) ==
    [ pc |-> "new",              \* new, awaitCreate, created, rejected,
                                 \*   failed500
      body |-> body,             \* req.body
      status |-> 0,              \* HTTP status written (0: none yet)
      jsonError |-> "none" ]     \* code of the JSON error body

\* a call that is never made
NoPost == [NewPost(CHOOSE b \in BodyInputs : SessionCreateBodyOk(b))
              EXCEPT !.pc = "none"]

\* a session as createSession makes it, and as an earlier run may have left it
FreshSession == [jo |-> "absent", log |-> << >>]
UsedSessions == { [jo |-> j, log |-> <<OldEvent>>] : j \in JudgeOutputs }

InitStore ==
    /\ store \in [SessionKeys -> {NoSession} \cup UsedSessions]
    /\ store["B"] = NoSession
    /\ store["G"] = NoSession

InitRequests ==
    \E query \in QueryInputs :
        rq = [r \in ReqIds |-> IF r = 1 THEN NewRequest(query) ELSE NoRequest]

\* the web client before it is mounted: no line, no EventSource
NoClient ==
    [ lines |-> 0,               \* length of the state lines
      sessionId |-> FALSE,       \* a session id has been set
      es |-> "none",             \* esRef.current: none, connecting, open, closed
      isLoading |-> FALSE,
      mounted |-> FALSE ]

\* the shipped pipeline
Init ==
    /\ InitStore
    /\ InitRequests
    /\ maxIter = maxIterations
    /\ post = NoPost
    /\ client = NoClient

\* the loop with any positive bound
InitN ==
    /\ InitStore
    /\ InitRequests
    /\ maxIter \in 1..MaxN
    /\ post = NoPost
    /\ client = NoClient

\* the server with no session (as new InMemorySessionService() leaves it)
\* or with the session an earlier run left, and one request, to either
\* route, with an input of the wide sets
InitApi ==
    /\ InitStore
    /\ store["A"] \in {NoSession, [jo |-> "absent", log |-> <<OldEvent>>]}
    /\ maxIter = maxIterations
    /\ \/ /\ \E query \in WideQueryInputs :
                rq = [r \in ReqIds |-> IF r = 1 THEN NewRequest(query)
                                               ELSE NoRequest]
          /\ post = NoPost
       \/ /\ rq = [r \in ReqIds |-> NoRequest]
          /\ \E body \in BodyInputs : post = NewPost(body)
    /\ client = NoClient

\* a valid query that names session k
QueryOn(k) == [Query(1, 1, 1, "absent", "absent") EXCEPT !.key = k]

\* two stream requests on different sessions: request 1 on session "A",
\* which is new or was left by an earlier run, request 2 on the new
\* session "B"
InitTwo ==
    /\ InitStore
    /\ store["A"] \in {NoSession, [jo |-> "fail", log |-> <<OldEvent>>]}
    /\ rq = [r \in ReqIds |-> NewRequest(QueryOn(IF r = 1 THEN "A" ELSE "B"))]
    /\ maxIter = TwoN
    /\ post = NoPost
    /\ client = NoClient

\* two stream requests on the same session, which POST /api/sessions has
\* created
InitShared ==
    /\ store = [k \in SessionKeys |->
                   IF k = "A" THEN FreshSession ELSE NoSession]
    /\ rq = [r \in ReqIds |-> NewRequest(QueryOn("A"))]
    /\ maxIter = TwoN
    /\ post = NoPost
    /\ client = NoClient

\* the web client is mounted; the server side is left out
InitClient ==
    /\ store = [k \in SessionKeys |-> NoSession]
    /\ rq = [r \in ReqIds |-> NoRequest]
    /\ maxIter = maxIterations
    /\ post = NoPost
    /\ client = [NoClient EXCEPT !.mounted = TRUE]

----------------------------------------------------------------------------
(* The session service *)

\* (mutant) the service keeps one state for all sessions
SessionJo_Shared(st, key) ==
    IF \E k \in DOMAIN st : st[k] # NoSession /\ st[k].jo # "absent"
    THEN st[CHOOSE k \in DOMAIN st : st[k] # NoSession /\ st[k].jo # "absent"].jo
    ELSE "absent"

\* session?.state?.['judge_output'] for the session getSession returns
SessionJo(st, key) ==
    IF st[key] = NoSession THEN "absent" ELSE st[key].jo

\* sessionService.appendEvent, as the Runner calls it for every event before
\* yielding it: the event goes to the end of the log and the output it
\* declares overwrites state['judge_output']
\* (mutant) the log keeps the latest event only
AppendEvent_KeepsLast(st, key, e) ==
    [st EXCEPT ![key] =
        [jo  |-> IF e.delta = "none" THEN st[key].jo ELSE e.delta,
         log |-> <<e>>]]

\* (mutant) the event is logged but the output it declares is not merged
AppendEvent_NoMerge(st, key, e) ==
    [st EXCEPT ![key] =
        [jo  |-> st[key].jo,
         log |-> Append(st[key].log, e)]]

\* (mutant) a merge keeps a value that is already there
AppendEvent_FirstWins(st, key, e) ==
    [st EXCEPT ![key] =
        [jo  |-> IF e.delta = "none" \/ st[key].jo # "absent"
                 THEN st[key].jo ELSE e.delta,
         log |-> Append(st[key].log, e)]]

AppendEvent(st, key, e) ==
    [st EXCEPT ![key] =
        [jo  |-> IF e.delta = "none" THEN st[key].jo ELSE e.delta,
         log |-> Append(st[key].log, e)]]

\* the events of run r in the log of its session, in log order
RunEvents(r) ==
    IF store[rq[r].query.key] = NoSession THEN << >>
    ELSE SelectSeq(store[rq[r].query.key].log,
                   LAMBDA e : e.run = r /\ e.author # "user")

----------------------------------------------------------------------------
(* orchestrator.ts *)

\* (mutant) the checker never escalates
CheckerEscalates_Never(jo) == FALSE

\* (mutant) the checker escalates on everything but a 'fail'
CheckerEscalates_NotFail(jo) == jo # "fail"

\* if (lastOutput?.status === 'pass')
CheckerEscalates(jo) == jo = "pass"

\* (mutant) the checker resets the status for the next pass
CheckerEvent_ResetsOutput(r, jo) ==
    [run |-> r, author |-> "checker", final |-> TRUE, delta |-> "fail",
     escalate |-> CheckerEscalates(jo)]

\* EscalationChecker.runAsyncImpl: the one event it yields
CheckerEvent(r, jo) ==
    [run |-> r, author |-> "checker", final |-> TRUE, delta |-> "none",
     escalate |-> CheckerEscalates(jo)]

\* an event of the researcher or of the judge; only the final response of the
\* judge (the agent with outputKey: 'judge_output') merges an output
LeafEvent(r, stage, final, delta) ==
    [run |-> r, author |-> stage, final |-> final, delta |-> delta,
     escalate |-> FALSE]

\* (mutant) the judge is left out of the pass
NextStage_SkipsJudge(stage) == "checker"

\* subAgents: [researcher, judge, new EscalationChecker({ name: 'checker' })]
NextStage(stage) ==
    IF stage = "researcher" THEN "judge" ELSE "checker"

\* (mutant) the loop ignores the escalate flag of the events it forwards
ShouldExit_Ignored(e) == FALSE

\* LoopAgent: an event with actions.escalate ends the loop once the sub-agent
\* that yielded it is drained
ShouldExit(e) == e.escalate

\* (mutant) one pass too many
LoopExhausted_OffByOne(passes, n) == passes > n

\* LoopAgent: the bound is reached after this pass
LoopExhausted(passes, n) == passes >= n

----------------------------------------------------------------------------
(* server.ts: pieces of the stream handler *)

\* return sendError(res, status, code, message, reqId)
SendError(rec, status, code, pc) ==
    [rec EXCEPT !.status = status, !.jsonError = code, !.ended = TRUE,
                !.pc = pc]

\* (mutant) the keep-alive timer is not set
SseSetup_NoTimer(rec) ==
    [rec EXCEPT !.status = 200,
                !.frames = Append(rec.frames, PreambleFrame(rec.aborted)),
                !.listening = TRUE,
                !.pc = "pull"]

\* res.writeHead(200, ...); res.write('retry: 5000\n\n'); the keep-alive
\* timer; req.on('close', ...); the first pull of runner.runAsync(...)
SseSetup(rec) ==
    [rec EXCEPT !.status = 200,
                !.frames = Append(rec.frames, PreambleFrame(rec.aborted)),
                !.pingArmed = TRUE,
                !.listening = TRUE,
                !.pc = "pull"]

\* (mutant) the close callback leaves the keep-alive timer running
OnClose_KeepsTimer(rec) ==
    [rec EXCEPT !.aborted = TRUE, !.yieldedAtClose = rec.produced]

\* req.on('close', () => { aborted = true; clearInterval(ping); })
OnClose(rec) ==
    [rec EXCEPT !.aborted = TRUE, !.pingArmed = FALSE,
                !.yieldedAtClose = rec.produced]

\* (mutant) the finally block does not end the response
Finally_NoEnd(rec) ==
    [rec EXCEPT !.pingArmed = FALSE, !.pc = "ended", !.cur = NoEvent]

\* finally { clearInterval(ping); console.log(...); res.end(); }
Finally(rec) ==
    [rec EXCEPT !.pingArmed = FALSE, !.ended = TRUE, !.pc = "ended",
                !.cur = NoEvent]

\* (mutant) the catch block reports nothing
Catch_NoFrame(rec) == [rec EXCEPT !.reason = "error"]

\* (mutant) the catch block answers with sendError(res, 500, ...)
Catch_JsonError(rec) ==
    [rec EXCEPT !.reason = "error", !.status = 500,
                !.jsonError = "internal_error"]

\* catch (streamErr) { reason = 'error'; send({ error, code, reqId }); }
Catch(rec) ==
    [rec EXCEPT !.reason = "error",
                !.frames = Append(rec.frames, ErrorFrame(rec.aborted))]

\* (mutant) the loop never looks at the flag
Aborts_Never(rec) == FALSE

\* if (aborted) { reason = 'aborted'; ...; break; }
Aborts(rec) == rec.aborted

\* (mutant) continue in place of break: the frame is skipped and the handler
\* pulls on
OnEvent_Continue(rec, e) ==
    IF Aborts(rec)
    THEN [rec EXCEPT !.reason = "aborted"]
    ELSE [rec EXCEPT !.cur = e, !.pc = "snapshot"]

\* (mutant) only final responses are forwarded
OnEvent_SkipPartial(rec, e) ==
    IF Aborts(rec)
    THEN Finally([rec EXCEPT !.reason = "aborted", !.rstate = "returned"])
    ELSE IF e.final THEN [rec EXCEPT !.cur = e, !.pc = "snapshot"]
    ELSE rec

\* the loop body from the arrival of an event to its first await: the break
\* ends the generator and runs the finally block, otherwise the handler
\* awaits sessionService.getSession for the snapshot
OnEvent(rec, e) ==
    IF Aborts(rec)
    THEN Finally([rec EXCEPT !.reason = "aborted", !.rstate = "returned"])
    ELSE [rec EXCEPT !.cur = e, !.pc = "snapshot"]

\* send({ author, ..., escalate, judge_output, reqId }); eventCount++; and
\* the next pull
SendEvent(rec, jo) ==
    [rec EXCEPT !.frames = Append(rec.frames,
                                  DataFrame(rec.cur, rec.produced, jo, rec.aborted)),
                !.eventCount = rec.eventCount + 1,
                !.cur = NoEvent,
                !.pc = "pull"]

----------------------------------------------------------------------------
(* Actions of the stream handler, app.get('/api/run/stream', ...) *)

\* the bound of the model on ticks, non-final events and failed reads
MayBeIrregular(rec) ==
    LET Used(x) == x.pings + x.extras + x.readFailures
    IN  Used(rq[1]) + Used(rq[2]) < MaxIrregular

SetReq(r, rec) == rq' = [rq EXCEPT ![r] = rec]

\* (mutant) the 400 is sent but the handler does not return
Receive_NoReturn(r) ==
    /\ rq[r].pc = "new"
    /\ IF RunStreamQueryOk(rq[r].query)
       THEN SetReq(r, [rq[r] EXCEPT !.pc = "awaitGet"])
       ELSE SetReq(r, [SendError(rq[r], 400, "invalid_request", "rejected")
                          EXCEPT !.pc = "awaitGet"])
    /\ UNCHANGED <<store, maxIter, post, client>>

\* (mutant) the loop takes its bound from the maxIterations parameter
Receive_HonoursMaxIterations(r) ==
    /\ rq[r].pc = "new"
    /\ IF RunStreamQueryOk(rq[r].query)
       THEN /\ SetReq(r, [rq[r] EXCEPT !.pc = "awaitGet"])
            /\ maxIter' = IF rq[r].query.maxIterations = "absent"
                          THEN maxIter
                          ELSE CoerceNumber(rq[r].query.maxIterations).value
       ELSE /\ SetReq(r, SendError(rq[r], 400, "invalid_request", "rejected"))
            /\ UNCHANGED maxIter
    /\ UNCHANGED <<store, post, client>>

\* The request arrives: validation, then the handler awaits getSession
Receive(r) ==
    /\ rq[r].pc = "new"
    /\ IF RunStreamQueryOk(rq[r].query)
       THEN SetReq(r, [rq[r] EXCEPT !.pc = "awaitGet"])
       ELSE SetReq(r, SendError(rq[r], 400, "invalid_request", "rejected"))
    /\ UNCHANGED <<store, maxIter, post, client>>

\* (mutant) createSession is called whether or not a session was found
PrepFound_Recreates(r) ==
    /\ rq[r].pc = "awaitGet"
    /\ store[rq[r].query.key] # NoSession
    /\ store' = [store EXCEPT ![rq[r].query.key] = FreshSession]
    /\ SetReq(r, SseSetup(rq[r]))
    /\ UNCHANGED <<maxIter, post, client>>

\* await sessionService.getSession(...) returns a session: no createSession
PrepFound(r) ==
    /\ rq[r].pc = "awaitGet"
    /\ store[rq[r].query.key] # NoSession
    /\ SetReq(r, SseSetup(rq[r]))
    /\ UNCHANGED <<store, maxIter, post, client>>

\* await sessionService.getSession(...) returns nothing: the handler awaits
\* createSession
PrepMissing(r) ==
    /\ rq[r].pc = "awaitGet"
    /\ store[rq[r].query.key] = NoSession
    /\ SetReq(r, [rq[r] EXCEPT !.pc = "awaitCreate"])
    /\ UNCHANGED <<store, maxIter, post, client>>

\* await sessionService.createSession(...) returns
PrepCreated(r) ==
    /\ rq[r].pc = "awaitCreate"
    /\ store' = [store EXCEPT ![rq[r].query.key] = FreshSession]
    /\ SetReq(r, SseSetup(rq[r]))
    /\ UNCHANGED <<maxIter, post, client>>

\* (mutant) the stream is set up before the session is prepared, and the
\* outer catch then calls sendError on it
PrepFails_AfterHeaders(r) ==
    /\ rq[r].pc \in {"awaitGet", "awaitCreate"}
    /\ SetReq(r, SendError(SseSetup(rq[r]), 500, "internal_error",
                           "failed500"))
    /\ UNCHANGED <<store, maxIter, post, client>>

\* getSession or createSession throws before the SSE headers: the outer catch
PrepFails(r) ==
    /\ rq[r].pc \in {"awaitGet", "awaitCreate"}
    /\ SetReq(r, SendError(rq[r], 500, "internal_error", "failed500"))
    /\ UNCHANGED <<store, maxIter, post, client>>

\* (mutant) aborted and ping are module-level: a close callback stops every
\* request that has registered one
Close_SharedFlag(r) ==
    /\ rq[r].pc \in {"awaitGet", "awaitCreate", "pull", "snapshot"}
    /\ ~rq[r].connClosed
    /\ rq' = [o \in ReqIds |->
                LET rec == IF o = r THEN [rq[o] EXCEPT !.connClosed = TRUE]
                                    ELSE rq[o]
                IN  IF rq[r].listening /\ rq[o].listening /\ ~rq[o].ended
                    THEN [OnClose(rq[o]) EXCEPT !.connClosed = rec.connClosed]
                    ELSE rec]
    /\ UNCHANGED <<store, maxIter, post, client>>

\* The observer's connection closes.  The callback runs only if it has been
\* registered (it is registered after the session has been prepared).
Close(r) ==
    /\ rq[r].pc \in {"awaitGet", "awaitCreate", "pull", "snapshot"}
    /\ ~rq[r].connClosed
    /\ SetReq(r, IF rq[r].listening
                 THEN [OnClose(rq[r]) EXCEPT !.connClosed = TRUE]
                 ELSE [rq[r] EXCEPT !.connClosed = TRUE])
    /\ UNCHANGED <<store, maxIter, post, client>>

\* The keep-alive timer fires
Ping(r) ==
    /\ rq[r].pingArmed
    /\ MayBeIrregular(rq[r])
    /\ SetReq(r, [rq[r] EXCEPT !.frames = Append(rq[r].frames,
                                                 PingFrame(rq[r].aborted)),
                               !.pings = rq[r].pings + 1])
    /\ UNCHANGED <<store, maxIter, post, client>>

\* (mutant) a snapshot read that throws is not caught apart: it ends the
\* stream like a throw of the sequence
Snapshot_FailureEnds(r) ==
    /\ rq[r].pc = "snapshot"
    /\ \/ SetReq(r, SendEvent(rq[r], SessionJo(store, rq[r].query.key)))
       \/ /\ MayBeIrregular(rq[r])
          /\ SetReq(r, Finally(Catch([rq[r] EXCEPT
                                         !.readFailures = rq[r].readFailures + 1,
                                         !.rstate = "returned"])))
    /\ UNCHANGED <<store, maxIter, post, client>>

\* await sessionService.getSession(...) for the snapshot returns or throws
\* (the throw is swallowed and judge_output stays undefined); then send
Snapshot(r) ==
    /\ rq[r].pc = "snapshot"
    /\ \/ SetReq(r, SendEvent(rq[r], SessionJo(store, rq[r].query.key)))
       \/ /\ MayBeIrregular(rq[r])
          /\ SetReq(r, SendEvent([rq[r] EXCEPT !.readFailures =
                                                  rq[r].readFailures + 1],
                                 "absent"))
    /\ UNCHANGED <<store, maxIter, post, client>>

----------------------------------------------------------------------------
(* Actions of runner.runAsync(...), each taken while the handler awaits the *)
(* next event                                                               *)

\* The first pull: the Runner loads the session (ctx.session) and appends the
\* user's message to its log; the researcher's delegation starts
RunnerStart(r) ==
    /\ rq[r].pc = "pull"
    /\ rq[r].rstate = "notStarted"
    /\ store' = AppendEvent(store, rq[r].query.key,
                            [run |-> r, author |-> "user", final |-> FALSE,
                             delta |-> "none", escalate |-> FALSE])
    /\ SetReq(r, [rq[r] EXCEPT !.rstate = "running",
                               !.ctxJo = SessionJo(store, rq[r].query.key),
                               !.startJo = SessionJo(store, rq[r].query.key)])
    /\ UNCHANGED <<maxIter, post, client>>

\* The delegation of the researcher or of the judge returns an event: the
\* Runner appends it and yields it to the handler
LeafYield(r) ==
    /\ rq[r].pc = "pull"
    /\ rq[r].rstate = "running"
    /\ rq[r].stage \in Leaves
    /\ \E final \in BOOLEAN, delta \in JudgeDeltas :
          /\ ~MayBeIrregular(rq[r]) => final
          /\ delta # "none" => (rq[r].stage = "judge" /\ final)
          /\ LET e == LeafEvent(r, rq[r].stage, final, delta)
                 ran == [rq[r] EXCEPT
                            !.produced = rq[r].produced + 1,
                            !.ctxJo = IF delta = "none" THEN rq[r].ctxJo ELSE delta,
                            !.extras = IF final THEN rq[r].extras
                                                ELSE rq[r].extras + 1,
                            !.stage = IF final THEN NextStage(rq[r].stage)
                                               ELSE rq[r].stage]
             IN  /\ store' = AppendEvent(store, rq[r].query.key, e)
                 /\ SetReq(r, OnEvent(ran, e))
    /\ UNCHANGED <<maxIter, post, client>>

\* (mutant) the loop takes a failed delegation for a pass that did not
\* escalate and starts the next pass
LeafFail_Swallowed(r) ==
    /\ rq[r].pc = "pull"
    /\ rq[r].rstate = "running"
    /\ rq[r].stage \in Leaves
    /\ SetReq(r, [rq[r] EXCEPT !.failedPass = rq[r].iter + 1,
                               !.stage = "loopCheck"])
    /\ UNCHANGED <<store, maxIter, post, client>>

\* The delegation of the researcher or of the judge fails: runAsync throws
\* and the handler's catch and finally blocks run
LeafFail(r) ==
    /\ rq[r].pc = "pull"
    /\ rq[r].rstate = "running"
    /\ rq[r].stage \in Leaves
    /\ SetReq(r, Finally(Catch([rq[r] EXCEPT !.rstate = "failed",
                                             !.failedPass = rq[r].iter + 1])))
    /\ UNCHANGED <<store, maxIter, post, client>>

\* The checker runs: one event, decided on ctx.session.state['judge_output']
CheckerYield(r) ==
    /\ rq[r].pc = "pull"
    /\ rq[r].rstate = "running"
    /\ rq[r].stage = "checker"
    /\ LET e == CheckerEvent(r, rq[r].ctxJo)
           ran == [rq[r] EXCEPT !.produced = rq[r].produced + 1,
                                !.shouldExit = ShouldExit(e),
                                !.stage = "loopCheck"]
       IN  /\ store' = AppendEvent(store, rq[r].query.key, e)
           /\ SetReq(r, OnEvent(ran, e))
    /\ UNCHANGED <<maxIter, post, client>>

\* (mutant) the loop throws when its bound is reached without an escalate
LoopNext_ExhaustionIsError(r) ==
    /\ rq[r].pc = "pull"
    /\ rq[r].rstate = "running"
    /\ rq[r].stage = "loopCheck"
    /\ SetReq(r,
          IF rq[r].shouldExit
          THEN Finally([rq[r] EXCEPT !.loop = "Escalated", !.rstate = "done"])
          ELSE IF LoopExhausted(rq[r].iter + 1, maxIter)
          THEN Finally(Catch([rq[r] EXCEPT !.iter = rq[r].iter + 1,
                                           !.loop = "Exhausted",
                                           !.rstate = "failed"]))
          ELSE [rq[r] EXCEPT !.iter = rq[r].iter + 1,
                             !.stage = "researcher",
                             !.shouldExit = FALSE])
    /\ UNCHANGED <<store, maxIter, post, client>>

\* LoopAgent after the last sub-agent of a pass: return on escalate, else
\* count the pass and either start the next one or return; when it returns
\* the sequential pipeline and the run are over and the handler's finally
\* block runs
LoopNext(r) ==
    /\ rq[r].pc = "pull"
    /\ rq[r].rstate = "running"
    /\ rq[r].stage = "loopCheck"
    /\ SetReq(r,
          IF rq[r].shouldExit
          THEN Finally([rq[r] EXCEPT !.loop = "Escalated", !.rstate = "done"])
          ELSE IF LoopExhausted(rq[r].iter + 1, maxIter)
          THEN Finally([rq[r] EXCEPT !.iter = rq[r].iter + 1,
                                     !.loop = "Exhausted", !.rstate = "done"])
          ELSE [rq[r] EXCEPT !.iter = rq[r].iter + 1,
                             !.stage = "researcher",
                             !.shouldExit = FALSE])
    /\ UNCHANGED <<store, maxIter, post, client>>

----------------------------------------------------------------------------
(* Actions of app.post('/api/sessions', ...) *)

\* The request arrives: validation, then the handler awaits createSession
PostReceive ==
    /\ post.pc = "new"
    /\ post' = IF SessionCreateBodyOk(post.body)
               THEN [post EXCEPT !.pc = "awaitCreate"]
               ELSE [post EXCEPT !.status = 400,
                                 !.jsonError = "invalid_request",
                                 !.pc = "rejected"]
    /\ UNCHANGED <<store, rq, maxIter, client>>

\* await sessionService.createSession(...) returns; res.json({ id, ... })
PostCreated ==
    /\ post.pc = "awaitCreate"
    /\ store' = [store EXCEPT ![post.body.key] = FreshSession]
    /\ post' = [post EXCEPT !.status = 200, !.pc = "created"]
    /\ UNCHANGED <<rq, maxIter, client>>

\* createSession throws: the catch block
PostFails ==
    /\ post.pc = "awaitCreate"
    /\ post' = [post EXCEPT !.status = 500, !.jsonError = "internal_error",
                            !.pc = "failed500"]
    /\ UNCHANGED <<store, rq, maxIter, client>>

----------------------------------------------------------------------------
(* Actions of the web client, App.tsx.  lines is the length of the log.     *)

\* prev.slice(-1000): the length of what is kept of a log of n lines
Slice(n) == IF n > LineCap THEN LineCap ELSE n

\* setLines((prev) => [...prev.slice(-1000), ...out]) with k lines in out
PushLines(n, k) == Slice(n) + k

\* createNewSession (on mount while there is no sessionId, or asked for by
\* the user) succeeds: setLines([`--- New Session Created ...`])
ClientNewSession ==
    /\ client.mounted
    /\ client' = [client EXCEPT !.lines = 1, !.sessionId = TRUE]
    /\ UNCHANGED <<store, rq, maxIter, post>>

\* start(): validation passes (a session id is set), an EventSource that is
\* there is closed, and a new one is made
ClientStart ==
    /\ client.mounted
    /\ client.sessionId
    /\ client' = [client EXCEPT !.es = "connecting", !.isLoading = TRUE]
    /\ UNCHANGED <<store, rq, maxIter, post>>

\* es.onopen
ClientOpen ==
    /\ client.es = "connecting"
    /\ client' = [client EXCEPT !.es = "open",
                                !.lines = PushLines(client.lines, 1)]
    /\ UNCHANGED <<store, rq, maxIter, post>>

\* es.onmessage: the frame gives k lines; nothing is set when it gives none
\* or when it does not parse
ClientMessage ==
    /\ client.es = "open"
    /\ \E k \in 0..MaxOut :
          client' = [client EXCEPT !.lines = IF k = 0 THEN client.lines
                                             ELSE PushLines(client.lines, k)]
    /\ UNCHANGED <<store, rq, maxIter, post>>

\* es.onerror: the server ended the response or the connection broke
ClientError ==
    /\ client.es \in {"connecting", "open"}
    /\ client' = [client EXCEPT !.es = "closed", !.isLoading = FALSE,
                                !.lines = PushLines(client.lines, 1)]
    /\ UNCHANGED <<store, rq, maxIter, post>>

\* stop()
ClientStop ==
    /\ client.mounted
    /\ client' = [client EXCEPT !.es = "none", !.isLoading = FALSE,
                                !.lines = PushLines(client.lines, 1)]
    /\ UNCHANGED <<store, rq, maxIter, post>>

NextClient ==
    \/ ClientNewSession
    \/ ClientStart
    \/ ClientOpen
    \/ ClientMessage
    \/ ClientError
    \/ ClientStop

\* the web client alone, fed with any frames
SpecClient == InitClient /\ [][NextClient]_vars

----------------------------------------------------------------------------

Next ==
    \E r \in ReqIds :
        \/ Receive(r)
        \/ PrepFound(r)
        \/ PrepMissing(r)
        \/ PrepCreated(r)
        \/ PrepFails(r)
        \/ Close(r)
        \/ Ping(r)
        \/ Snapshot(r)
        \/ RunnerStart(r)
        \/ LeafYield(r)
        \/ LeafFail(r)
        \/ CheckerYield(r)
        \/ LoopNext(r)

\* the two routes
NextApi ==
    \/ Next
    \/ PostReceive
    \/ PostCreated
    \/ PostFails

\* the shipped pipeline (maxIterations = 3)
Spec == Init /\ [][Next]_vars

\* two requests in flight on different sessions, the loop with one pass
SpecTwo == InitTwo /\ [][Next]_vars

\* the server from its start, one request to either route, inputs at and
\* around the limits of the schemas
SpecApi == InitApi /\ [][NextApi]_vars

\* the pipeline with maxIterations = n for every n in 1..MaxN
SpecN == InitN /\ [][Next]_vars

\* a step of the handler of request r or of the generator it iterates: the
\* promise the handler awaits settles (every delegation returns or fails)
Progress(r) ==
    \/ Receive(r)
    \/ PrepFound(r)
    \/ PrepMissing(r)
    \/ PrepCreated(r)
    \/ PrepFails(r)
    \/ Snapshot(r)
    \/ RunnerStart(r)
    \/ LeafYield(r)
    \/ LeafFail(r)
    \/ CheckerYield(r)
    \/ LoopNext(r)

\* the shipped pipeline when every awaited promise settles
FairSpec == Spec /\ \A r \in ReqIds : WF_vars(Progress(r))

\* two requests in flight on one session that exists, their observers
\* connected to the end (no close, and the ticks of the timer left out),
\* the loop with one pass
NextShared ==
    \E r \in ReqIds :
        \/ Receive(r)
        \/ PrepFound(r)
        \/ PrepFails(r)
        \/ Snapshot(r)
        \/ RunnerStart(r)
        \/ LeafYield(r)
        \/ LeafFail(r)
        \/ CheckerYield(r)
        \/ LoopNext(r)

SpecShared == InitShared /\ [][NextShared]_vars

----------------------------------------------------------------------------
(* Vocabulary of the properties *)

IsChecker(e) == e.author = "checker"
IsJudge(e) == e.author = "judge"
IsResearcher(e) == e.author = "researcher"
IsFinal(e) == e.final
Escalates(e) == e.escalate

\* how many elements of a sequence satisfy a test
Count(seq, Test(_)) == Len(SelectSeq(seq, Test))

\* body passes the loop of run r has performed or begun to close: every pass
\* ends with the one event of the checker
Passes(r) == Count(RunEvents(r), IsChecker)

\* the positions of the escalate events of run r
EscalatePositions(r) ==
    { i \in DOMAIN RunEvents(r) : RunEvents(r)[i].escalate }

\* the outputs the judge of run r merged, in order
JudgeMerges(r) ==
    LET Merged(e) == e.delta # "none"
        ms == SelectSeq(RunEvents(r), Merged)
    IN  [i \in DOMAIN ms |-> ms[i].delta]

IsData(f) == f.kind = "data"
IsError(f) == f.kind = "error"
IsPing(f) == f.kind = "ping"

\* a is an initial part of b
IsPrefix(a, b) == Len(a) <= Len(b) /\ SubSeq(b, 1, Len(a)) = a

\* the data frames of request r, in the order they were written
DataFrames(r) == SelectSeq(rq[r].frames, IsData)

\* a sequence of events is made of body passes, each of them the events of
\* the researcher up to its final response, then those of the judge up to
\* its final response, then the one event of the checker
InStageOrder(E) ==
    /\ \A i \in DOMAIN E : E[i].author \in {"researcher", "judge", "checker"}
    /\ E # << >> => IsResearcher(E[1])
    /\ \A i \in DOMAIN E : IsChecker(E[i]) => E[i].final
    /\ \A i \in 1..(Len(E) - 1) :
          E[i + 1].author =
             IF ~E[i].final THEN E[i].author
             ELSE IF IsResearcher(E[i]) THEN "judge"
             ELSE IF IsJudge(E[i]) THEN "checker"
             ELSE "researcher"

\* state['judge_output'] once the first n events of run r are merged: the
\* output of the last of them that declares one, else the value the session
\* had when the run began
StateAfter(r, n) ==
    LET ms == { i \in 1..n : RunEvents(r)[i].delta # "none" }
    IN  IF ms = {} THEN rq[r].startJo
        ELSE RunEvents(r)[CHOOSE i \in ms : \A j \in ms : j <= i].delta

----------------------------------------------------------------------------
(* C1: with maxIterations = n, a run that comes to its end without a leaf   *)
(* failure and without any escalate event has made exactly n body passes,   *)
(* has yielded exactly the events of those passes (three per pass plus the  *)
(* events that precede a final response: 9 for n = 3 and one event per      *)
(* stage), none with escalate, and its loop is Exhausted; the run is then   *)
(* over (nothing follows the loop in the pipeline) and the response ended.  *)
(* While the loop is Running fewer than n passes are complete.              *)
C1_ExhaustedAfterNPasses ==
    \A r \in ReqIds :
        /\ (rq[r].rstate = "done" /\ EscalatePositions(r) = {}) =>
              /\ rq[r].loop = "Exhausted"
              /\ rq[r].iter = maxIter
              /\ Passes(r) = maxIter
              /\ Count(RunEvents(r), IsFinal) = 3 * maxIter
              /\ Len(RunEvents(r)) = 3 * maxIter + rq[r].extras
              /\ rq[r].produced = Len(RunEvents(r))
              /\ (maxIter = 3 /\ rq[r].extras = 0 => rq[r].produced = 9)
              /\ rq[r].pc = "ended"
        /\ rq[r].loop = "Exhausted" =>
              (rq[r].rstate = "done" /\ EscalatePositions(r) = {})
        /\ rq[r].loop = "Running" => rq[r].iter < maxIter

\* witness: a loop with a bound other than the shipped one is Exhausted, and
\* one of its leaves yielded an event before its final response
C1_Witness ==
    /\ maxIter = 2
    /\ rq[1].loop = "Exhausted"
    /\ rq[1].extras = 1
    /\ Len(RunEvents(1)) = 7

----------------------------------------------------------------------------
(* C2: an escalate event is the last event its run yields (no stage of the  *)
(* loop body produces an event after it), it is an event of the checker,    *)
(* and it closes pass k <= maxIterations; a run that comes to its end with  *)
(* an escalate event ends with the loop Escalated after exactly those k     *)
(* passes (k - 1 of them counted as complete), and the loop is Escalated    *)
(* only if the last event of its last pass carries escalate = true.         *)
C2_EscalatedAfterKPasses ==
    \A r \in ReqIds :
        LET evs == RunEvents(r) IN
        /\ \A i \in EscalatePositions(r) :
              /\ i = Len(evs)
              /\ IsChecker(evs[i])
              /\ Passes(r) <= maxIter
        /\ (rq[r].rstate = "done" /\ EscalatePositions(r) # {}) =>
              /\ rq[r].loop = "Escalated"
              /\ Passes(r) = rq[r].iter + 1
        /\ rq[r].loop = "Escalated" =>
              /\ rq[r].rstate = "done"
              /\ evs # << >>
              /\ evs[Len(evs)].escalate
              /\ IsChecker(evs[Len(evs)])

\* witness: the checker first escalates on the second pass and the loop is
\* Escalated
C2_Witness ==
    /\ rq[1].loop = "Escalated"
    /\ Passes(1) = 2
    /\ JudgeMerges(1) = <<"fail", "pass">>

----------------------------------------------------------------------------
(* C3 scenario: the shipped pipeline, one event per stage and pass, the     *)
(* judge merging fail, fail, pass; the run came to its end.                 *)
C3_Scenario(r) ==
    /\ maxIter = 3
    /\ rq[r].rstate = "done"
    /\ rq[r].extras = 0
    /\ JudgeMerges(r) = <<"fail", "fail", "pass">>

(* C3 as stated: the scenario yields 9 body events plus one escalate event, *)
(* 10 events in all.                                                        *)
C3_Original_TenEvents ==
    \A r \in ReqIds : C3_Scenario(r) => rq[r].produced = 10

(* C3 as amended: the scenario yields exactly 9 events, the ninth being the *)
(* checker's escalate event of pass 3 (the checker yields one event per     *)
(* pass, the escalate event in place of the continue event); the loop is    *)
(* Escalated, and a handler that never saw the abort flag wrote exactly 9   *)
(* data frames.                                                             *)
C3_NineEvents ==
    \A r \in ReqIds :
        C3_Scenario(r) =>
            /\ rq[r].produced = 9
            /\ Len(RunEvents(r)) = 9
            /\ EscalatePositions(r) = {9}
            /\ IsChecker(RunEvents(r)[9])
            /\ rq[r].loop = "Escalated"
            /\ rq[r].eventCount = 9
            /\ Count(rq[r].frames, IsData) = 9

\* witness: the scenario has run to its end
C3_Witness ==
    /\ C3_Scenario(1)
    /\ rq[1].pc = "ended"
    /\ rq[1].reason = "completed"

----------------------------------------------------------------------------
(* C4: every run of the checker appends exactly one event, authored by the  *)
(* checker, and that event carries escalate = true exactly when             *)
(* state['judge_output'].status is 'pass' at that moment (not when it is    *)
(* absent, 'fail', or anything else), whatever the rest of the state is;    *)
(* the state it reads is the one the session service holds.                 *)
C4_CheckerDecision ==
    [][ \A r \in ReqIds :
          (rq[r].stage = "checker" /\ rq'[r].stage # "checker") =>
             LET key == rq[r].query.key
                 log == store[key].log
                 e == store'[key].log[Len(log) + 1]
             IN  /\ Len(store'[key].log) = Len(log) + 1
                 /\ SubSeq(store'[key].log, 1, Len(log)) = log
                 /\ e.author = "checker"
                 /\ e.run = r
                 /\ e.escalate = (rq[r].ctxJo = "pass")
                 /\ rq[r].ctxJo = SessionJo(store, key)
                 /\ rq'[r].produced = rq[r].produced + 1 ]_vars

\* witness: on a session an earlier run had used, the checker has continued
\* in pass 1 on the value that run left (the judge merged nothing) and has
\* escalated in pass 2 on the 'pass' the judge merged
C4_Witness ==
    /\ Passes(1) = 2
    /\ ~RunEvents(1)[Len(RunEvents(1)) - 3].escalate
    /\ RunEvents(1)[Len(RunEvents(1))].escalate
    /\ JudgeMerges(1) = <<"pass">>
    /\ store["A"].log[1] = OldEvent

----------------------------------------------------------------------------
----------------------------------------------------------------------------
(* C6: a close of the connection while the run is in progress sets the      *)
(* abort flag; no data frame is written for an event the sequence yields    *)
(* after that; and when the sequence has yielded an event after it, that    *)
(* event is the only one (nothing more is pulled), the generator has been   *)
(* ended by the break without being exhausted, and the response is ended.   *)
C6_State(r) ==
    /\ rq[r].aborted =>
          \A i \in DOMAIN rq[r].frames :
              IsData(rq[r].frames[i]) =>
                  rq[r].frames[i].ev <= rq[r].yieldedAtClose
    /\ (rq[r].aborted /\ rq[r].produced > rq[r].yieldedAtClose) =>
          /\ rq[r].produced = rq[r].yieldedAtClose + 1
          /\ rq[r].rstate = "returned"
          /\ rq[r].reason = "aborted"
          /\ rq[r].ended

C6_Step(r) ==
    (rq[r].pc \in {"pull", "snapshot"} /\ ~rq[r].connClosed /\ rq'[r].connClosed)
        => (rq'[r].aborted /\ rq'[r].yieldedAtClose = rq[r].produced)

C6_AbortStopsBridge ==
    /\ [](\A r \in ReqIds : C6_State(r))
    /\ [][\A r \in ReqIds : C6_Step(r)]_vars

\* witness: the connection closed in the second pass and the bridge stopped
\* at the next event, which got no frame
C6_Witness ==
    /\ rq[1].aborted
    /\ rq[1].rstate = "returned"
    /\ rq[1].ended
    /\ Passes(1) = 1
    /\ rq[1].produced = 5
    /\ Count(rq[1].frames, IsData) = 4

----------------------------------------------------------------------------
(* C7: no keep-alive frame is written once the close callback has run or    *)
(* the response has been ended: every keep-alive frame was written with the *)
(* abort flag unset, the timer is not armed in any state in which the flag  *)
(* is set or the response ended (normal completion, abort or error), and no *)
(* step taken from such a state adds a keep-alive frame.                    *)
C7_State(r) ==
    /\ \A i \in DOMAIN rq[r].frames :
          IsPing(rq[r].frames[i]) => ~rq[r].frames[i].aborted
    /\ (rq[r].aborted \/ rq[r].ended) => ~rq[r].pingArmed

C7_Step(r) ==
    (rq[r].aborted \/ rq[r].ended) =>
        Count(rq'[r].frames, IsPing) = Count(rq[r].frames, IsPing)

C7_NoPingAfterCloseOrEnd ==
    /\ [](\A r \in ReqIds : C7_State(r))
    /\ [][\A r \in ReqIds : C7_Step(r)]_vars

\* witness: the timer had fired, then the close callback ran while a
\* delegation was pending, and the handler is still waiting for the event
C7_Witness ==
    /\ rq[1].aborted
    /\ ~rq[1].ended
    /\ rq[1].pc = "pull"
    /\ Count(rq[1].frames, IsPing) = 1
    /\ ~rq[1].pingArmed

----------------------------------------------------------------------------
(* C8 as stated: no error frame is written once the connection has closed   *)
(* and the close callback has run.                                          *)
C8_NoErrorFrameAfterClose ==
    \A r \in ReqIds :
        \A i \in DOMAIN rq[r].frames :
            IsError(rq[r].frames[i]) => ~rq[r].frames[i].aborted

----------------------------------------------------------------------------
(* C9 as stated: after a disconnect the pipeline still completes, so a      *)
(* request whose connection closed mid-run and whose sequence did not fail  *)
(* ends with the loop Escalated or Exhausted.                               *)
C9_Original_PipelineCompletes ==
    \A r \in ReqIds :
        (rq[r].pc = "ended" /\ rq[r].aborted /\ rq[r].rstate # "failed") =>
            rq[r].loop \in {"Escalated", "Exhausted"}

(* C9 as amended: after the close callback has run the sequence yields at   *)
(* most one more event; that event is appended to the log but the break     *)
(* then ends the generator: the run is over with its loop neither Escalated *)
(* nor Exhausted, nothing more is produced, and the events appended up to   *)
(* then (one more than the frames sent) are all in the log.                 *)
C9_AbortEndsTheRun ==
    \A r \in ReqIds :
        /\ rq[r].aborted => rq[r].produced <= rq[r].yieldedAtClose + 1
        /\ (rq[r].aborted /\ rq[r].produced = rq[r].yieldedAtClose + 1) =>
              rq[r].rstate = "returned"
        /\ rq[r].rstate = "returned" =>
              /\ rq[r].aborted
              /\ rq[r].pc = "ended"
              /\ rq[r].loop = "Running"
              /\ Len(RunEvents(r)) = rq[r].produced
              /\ rq[r].produced = rq[r].eventCount + 1

\* witness: the run was ended at the escalate event of its second pass, which
\* is in the log, and the loop is not Escalated
C9_Witness ==
    /\ rq[1].rstate = "returned"
    /\ rq[1].loop = "Running"
    /\ Passes(1) = 2
    /\ EscalatePositions(1) = {Len(RunEvents(1))}

----------------------------------------------------------------------------
(* C10: when every awaited promise settles, a request that got the SSE      *)
(* headers has its response ended in the end.  The response starts with the *)
(* preamble, written once; then come data frames and keep-alives; an error  *)
(* frame, if any, is the only one, is the last frame, and is there exactly  *)
(* when the reason is 'error'; the response is ended as soon as the         *)
(* sequence is over (exhausted, failed or ended by the break); and nothing  *)
(* is written to an ended response.                                         *)
C10_Shape(r) ==
    LET F == rq[r].frames IN
    /\ rq[r].status = 200 <=> F # << >>
    /\ \A i \in DOMAIN F : (F[i].kind = "preamble") <=> (i = 1)
    /\ \A i \in DOMAIN F : IsError(F[i]) => (i = Len(F) /\ rq[r].ended)
    /\ (Count(F, IsError) = 1) <=> (rq[r].reason = "error")
    /\ rq[r].rstate \in {"done", "failed", "returned"} => rq[r].ended
    /\ Count(F, IsData) = rq[r].eventCount

C10_Step(r) == rq[r].ended => rq'[r].frames = rq[r].frames

----------------------------------------------------------------------------
(* C11: two consecutive data frames of one run never both carry the same    *)
(* judge_output value (the snapshot is in a frame only if it changed since  *)
(* the frame before).  The handler puts the value it reads in every frame,  *)
(* so this fails as soon as two events follow one another with no merge in  *)
(* between.                                                                 *)
C11_SnapshotOnlyWhenChanged ==
    \A r \in ReqIds :
        \A i \in DOMAIN DataFrames(r) :
            (i > 1 /\ DataFrames(r)[i].jo # "absent") =>
                DataFrames(r)[i].jo # DataFrames(r)[i - 1].jo

----------------------------------------------------------------------------
(* C12: with one run on the session, the judge_output in the data frame of  *)
(* the n-th event of the run is state['judge_output'] with the first n      *)
(* events merged (the event's own output included), hence never older than  *)
(* what the latest forwarded event of the judge wrote; the one exception is *)
(* a snapshot read that threw, which leaves the field out of the frame.     *)
C12_SnapshotIsCurrent ==
    \A r \in ReqIds :
        \A i \in DOMAIN DataFrames(r) :
            LET f == DataFrames(r)[i] IN
            /\ f.ev \in DOMAIN RunEvents(r)
            /\ \/ f.jo = StateAfter(r, f.ev)
               \/ f.jo = "absent" /\ rq[r].readFailures > 0

\* witness: the frame of the judge's event carries the 'pass' that this very
\* event merged, over the 'fail' the session held when the run began
C12_Witness ==
    /\ rq[1].startJo = "fail"
    /\ \E i \in DOMAIN DataFrames(1) :
          /\ i > 1
          /\ DataFrames(1)[i].author = "judge"
          /\ RunEvents(1)[DataFrames(1)[i].ev].delta = "pass"
          /\ DataFrames(1)[i].jo = "pass"
          /\ DataFrames(1)[i - 1].jo = "fail"

----------------------------------------------------------------------------
(* C13: in a run that was neither cancelled nor failed, the data frames are *)
(* in one-to-one, order-preserving correspondence with the events of the    *)
(* run in log order (the i-th frame is the frame of the i-th logged event:  *)
(* same author, same escalate flag), and the log holds them pass by pass,   *)
(* researcher, judge, checker.  While a run is under way the frames are the *)
(* frames of the first events of the log, at most one event behind.         *)
C13_FramesFollowTheLog ==
    \A r \in ReqIds :
        LET D == DataFrames(r)
            E == RunEvents(r)
        IN  /\ Len(D) <= Len(E)
            /\ \A i \in DOMAIN D :
                  /\ D[i].ev = i
                  /\ D[i].author = E[i].author
                  /\ D[i].escalate = E[i].escalate
            /\ (rq[r].pc \in {"pull", "snapshot"} /\ ~rq[r].aborted) =>
                  Len(E) - Len(D) <= 1
            /\ rq[r].rstate = "done" =>
                  /\ Len(D) = Len(E)
                  /\ E[Len(E)].author = "checker"
                  /\ \A i \in DOMAIN E :
                        Count(SubSeq(E, 1, i), IsChecker) <= maxIter

\* witness: a completed run of three passes, one of whose leaves yielded an
\* event before its final response: ten events, ten frames
C13_Witness ==
    /\ rq[1].rstate = "done"
    /\ rq[1].extras = 1
    /\ Len(RunEvents(1)) = 10
    /\ Len(DataFrames(1)) = 10
    /\ DataFrames(1)[10].author = "checker"

----------------------------------------------------------------------------
(* C14: from the moment a run has begun, and so after it, the session's     *)
(* state['judge_output'] is the output merged by the last event of the      *)
(* judge that declared one, however many events and passes the judge had    *)
(* (the value the session held when the run began if no event declared      *)
(* one); only final responses of the judge declare an output, so no event   *)
(* of another stage changes the value, and the run's own copy agrees.       *)
C14_LastJudgeMergeWins ==
    \A r \in ReqIds :
        rq[r].rstate # "notStarted" =>
            LET E == RunEvents(r)
                M == JudgeMerges(r)
            IN  /\ \A i \in DOMAIN E :
                      E[i].delta # "none" => (IsJudge(E[i]) /\ E[i].final)
                /\ SessionJo(store, rq[r].query.key) = StateAfter(r, Len(E))
                /\ rq[r].ctxJo = SessionJo(store, rq[r].query.key)
                /\ M # << >> =>
                      SessionJo(store, rq[r].query.key) = M[Len(M)]

\* witness: a run that is over, whose judge yielded an event before a final
\* response and merged 'fail' and then 'pass', the checker's event after it
C14_Witness ==
    /\ rq[1].rstate = "done"
    /\ JudgeMerges(1) = <<"fail", "pass">>
    /\ \E i \in DOMAIN RunEvents(1) :
          IsJudge(RunEvents(1)[i]) /\ ~RunEvents(1)[i].final
    /\ IsChecker(RunEvents(1)[Len(RunEvents(1))])
    /\ store["A"].jo = "pass"

----------------------------------------------------------------------------
(* C15: when the delegation of a leaf throws in body pass i, nothing is     *)
(* retried: the generator is over, the loop is left Running with i - 1      *)
(* passes counted whatever maxIterations is, the error frame is the last    *)
(* frame of the ended response, and from then on no event is appended to    *)
(* the log and no frame is written.                                         *)
C15_State(r) ==
    rq[r].failedPass > 0 =>
        /\ rq[r].rstate = "failed"
        /\ rq[r].iter = rq[r].failedPass - 1
        /\ rq[r].loop = "Running"
        /\ rq[r].pc = "ended" /\ rq[r].ended
        /\ rq[r].reason = "error"
        /\ IsError(rq[r].frames[Len(rq[r].frames)])
        /\ Count(rq[r].frames, IsError) = 1

C15_Step(r) ==
    rq[r].failedPass > 0 =>
        /\ RunEvents(r)' = RunEvents(r)
        /\ rq'[r] = rq[r]

C15_FailureEndsTheRun ==
    /\ [](\A r \in ReqIds : C15_State(r))
    /\ [][\A r \in ReqIds : C15_Step(r)]_vars

\* witness: the judge's delegation threw in pass 2 of 3, after four events
C15_Witness ==
    /\ rq[1].failedPass = 2
    /\ maxIter = 3
    /\ rq[1].stage = "judge"
    /\ Len(RunEvents(1)) = 4
    /\ IsError(rq[1].frames[Len(rq[1].frames)])

----------------------------------------------------------------------------
(* C18: session preparation creates the session only when there is none: a  *)
(* step of a handler that has not yet set up the stream leaves an existing  *)
(* session (state and log) as it is, and changes the store only by putting  *)
(* a new, empty session where there was none; and the session exists from   *)
(* the moment the handler pulls the first event.                            *)
C18_State(r) ==
    rq[r].pc \in {"pull", "snapshot", "ended"} =>
        store[rq[r].query.key] # NoSession

C18_Step(r) ==
    (rq[r].pc \in {"new", "awaitGet", "awaitCreate"} /\ rq'[r] # rq[r]) =>
        \/ store' = store
        \/ /\ store[rq[r].query.key] = NoSession
           /\ store' = [store EXCEPT ![rq[r].query.key] = FreshSession]

C18_PreparationKeepsSession ==
    /\ [](\A r \in ReqIds : C18_State(r))
    /\ [][\A r \in ReqIds : C18_Step(r)]_vars

\* witness: the handler is about to pull the first event on a session that
\* an earlier run left with an output and a log
C18_Witness ==
    /\ rq[1].pc = "pull"
    /\ rq[1].rstate = "notStarted"
    /\ store["A"] = [jo |-> "pass", log |-> <<OldEvent>>]

----------------------------------------------------------------------------
(* C19: the events of a run are, pass after pass, all the events of the     *)
(* researcher, then all the events of the judge, then the one event of the  *)
(* checker, never interleaved; every one of them is authored by one of the  *)
(* three stages (neither the loop nor the sequential pipeline adds one),    *)
(* and the events logged are exactly the events the stages yielded.         *)
C19_StagesInOrder ==
    \A r \in ReqIds :
        /\ InStageOrder(RunEvents(r))
        /\ Len(RunEvents(r)) = rq[r].produced
        /\ Passes(r) <= maxIter
        /\ rq[r].rstate = "done" =>
              IsChecker(RunEvents(r)[Len(RunEvents(r))])

\* witness: a run in its third pass whose judge yielded two events in the
\* first pass
C19_Witness ==
    /\ rq[1].iter = 2
    /\ Len(RunEvents(1)) >= 8
    /\ IsJudge(RunEvents(1)[2]) /\ ~RunEvents(1)[2].final
    /\ IsJudge(RunEvents(1)[3])
    /\ IsChecker(RunEvents(1)[4])

----------------------------------------------------------------------------
(* C20: a run whose loop ended, Exhausted or Escalated, sends no error      *)
(* frame and no JSON error; its response is ended through the finally       *)
(* block with reason 'completed' and one data frame per event counted.      *)
C20_ExhaustionIsNoError ==
    \A r \in ReqIds :
        rq[r].loop \in {"Exhausted", "Escalated"} =>
            /\ Count(rq[r].frames, IsError) = 0
            /\ rq[r].jsonError = "none"
            /\ rq[r].status = 200
            /\ rq[r].reason = "completed"
            /\ rq[r].rstate = "done"
            /\ rq[r].pc = "ended" /\ rq[r].ended
            /\ rq[r].eventCount = Len(DataFrames(r))

\* witness: three passes without an escalate, nine events forwarded
C20_Witness ==
    /\ rq[1].loop = "Exhausted"
    /\ rq[1].eventCount = 9
    /\ rq[1].reason = "completed"
    /\ rq[1].ended

----------------------------------------------------------------------------
(* C16: the two schemas.  For a request the handler has validated, accepted *)
(* means that it was not answered 400.                                      *)
Validated(r) == rq[r].pc \notin {"none", "new"}
Accepted(r) == rq[r].pc # "rejected"
PostValidated == post.pc \notin {"none", "new"}
PostAccepted == post.pc # "rejected"

\* the lengths the claim names, written out
LengthsInRange(query) ==
    /\ query.userId \in 1..128
    /\ query.sessionId \in 1..128
    /\ query.q \in 1..2000

BodyInRange(body) ==
    /\ body.userId \in 1..128
    /\ body.sessionId = -1 \/ body.sessionId \in 1..128

(* C16 as stated: RunStreamQuery accepts exactly when userId and sessionId  *)
(* have a length in 1..128 and q a length in 1..2000, and SessionCreateBody *)
(* exactly when userId has a length in 1..128 and sessionId is absent or    *)
(* has a length in 1..128.  A query with the three strings in range and     *)
(* maxIterations=abc is rejected, so this fails.                            *)
C16_Original_LengthsDecide ==
    /\ \A r \in ReqIds :
          Validated(r) => (Accepted(r) <=> LengthsInRange(rq[r].query))
    /\ PostValidated => (PostAccepted <=> BodyInRange(post.body))

(* C16, amended: RunStreamQuery accepts exactly when the three strings are  *)
(* in range (128 and 2000 included; 0, 129, 2001 and a missing parameter    *)
(* excluded) and the optional parameters, when present, are well formed:    *)
(* model a string, maxIterations a text that Number() turns into a number.  *)
(* SessionCreateBody accepts exactly when userId is in range and sessionId  *)
(* is absent or in range.                                                   *)
C16_SchemasAccept ==
    /\ \A r \in ReqIds :
          Validated(r) =>
             (Accepted(r) <=>
                 /\ LengthsInRange(rq[r].query)
                 /\ rq[r].query.model # "array"
                 /\ rq[r].query.maxIterations # "abc")
    /\ PostValidated => (PostAccepted <=> BodyInRange(post.body))

\* witness: the query with userId and sessionId of 128 characters, q of
\* 2000, a model and a numeric maxIterations has been accepted and streams
C16_Witness ==
    /\ rq[1].query = Query(128, 128, 2000, "string", "3")
    /\ rq[1].status = 200

----------------------------------------------------------------------------
(* C17: a request that fails validation is answered 400 with the JSON error *)
(* code invalid_request and nothing else happens: the stream handler is     *)
(* over without a header, a frame, a timer, a close listener or a run, the  *)
(* POST handler is over, and as long as the only request is an invalid one  *)
(* the session service is untouched (no session is created).                *)
C17_State ==
    /\ \A r \in ReqIds :
          (Validated(r) /\ ~RunStreamQueryOk(rq[r].query)) =>
              rq[r] = [NewRequest(rq[r].query) EXCEPT
                          !.pc = "rejected", !.status = 400,
                          !.jsonError = "invalid_request", !.ended = TRUE]
    /\ (PostValidated /\ ~SessionCreateBodyOk(post.body)) =>
          post = [NewPost(post.body) EXCEPT
                     !.pc = "rejected", !.status = 400,
                     !.jsonError = "invalid_request"]

C17_Step ==
    ( /\ \A r \in ReqIds :
            rq[r].pc = "none" \/ ~RunStreamQueryOk(rq[r].query)
      /\ post.pc = "none" \/ ~SessionCreateBodyOk(post.body) )
    => store' = store

C17_InvalidRequestHasNoEffect ==
    /\ []C17_State
    /\ [][C17_Step]_vars

\* witness: a stream request whose q has 2001 characters was answered 400
\* and no session exists
C17_Witness ==
    /\ rq[1].query.q = 2001
    /\ rq[1].status = 400
    /\ rq[1].jsonError = "invalid_request"
    /\ \A k \in SessionKeys : store[k] = NoSession

----------------------------------------------------------------------------
(* C21: the event log of a session is append-only: a session that exists    *)
(* goes on existing and every step leaves its log as it was or longer at    *)
(* the end (never reordered, never pruned); the events a run has yielded,   *)
(* and its user message, are in the log once each; and when the run ended   *)
(* by a failure or by the break they are all still there.                   *)
C21_State(r) ==
    rq[r].rstate # "notStarted" =>
        LET log == store[rq[r].query.key].log
            Mine(e) == e.run = r
            User(e) == e.run = r /\ e.author = "user"
        IN  /\ Len(RunEvents(r)) = rq[r].produced
            /\ Count(log, User) = 1
            /\ Count(log, Mine) = rq[r].produced + 1

C21_Step(k) ==
    store[k] # NoSession =>
        /\ store'[k] # NoSession
        /\ IsPrefix(store[k].log, store'[k].log)

C21_LogIsAppendOnly ==
    /\ [](\A r \in ReqIds : C21_State(r))
    /\ [][\A k \in SessionKeys : C21_Step(k)]_vars

\* witness: a run on a session that already had a log failed in its second
\* pass: the old event, the user message and the four events are in the log
C21_Witness ==
    /\ rq[1].rstate = "failed"
    /\ rq[1].produced = 4
    /\ Len(store["A"].log) = 6
    /\ store["A"].log[1] = OldEvent
    /\ store["A"].log[2].author = "user"

----------------------------------------------------------------------------
(* C22: the state of a session changes only when the Runner appends an      *)
(* event of the judge that declares that value; the step in which the       *)
(* checker runs appends its one event and leaves judge_output as it was,    *)
(* and the step in which the handler's snapshot read returns (or throws)    *)
(* leaves the whole store as it was.                                        *)
C22_Step(r) ==
    LET key == rq[r].query.key IN
    /\ (store[key] # NoSession /\ store'[key] # NoSession
           /\ store'[key].jo # store[key].jo) =>
          \E e \in {store'[key].log[Len(store'[key].log)]} :
              /\ store'[key].log = Append(store[key].log, e)
              /\ IsJudge(e)
              /\ e.delta = store'[key].jo
    /\ (rq[r].stage = "checker" /\ rq'[r].stage # "checker") =>
          /\ store'[key].jo = store[key].jo
          /\ rq'[r].ctxJo = rq[r].ctxJo
          /\ store'[key].log =
                Append(store[key].log, CheckerEvent(r, rq[r].ctxJo))
          /\ \A k \in SessionKeys \ {key} : store'[k] = store[k]
    /\ (rq[r].pc = "snapshot" /\ rq'[r].pc # "snapshot") => store' = store

C22_OnlyTheRunnerWrites == [][\A r \in ReqIds : C22_Step(r)]_vars

\* witness: the frame of the checker's continue event has been sent and the
\* session still holds the 'fail' the judge merged
C22_Witness ==
    /\ Len(DataFrames(1)) = 3
    /\ DataFrames(1)[3].author = "checker"
    /\ DataFrames(1)[3].jo = "fail"
    /\ JudgeMerges(1) = <<"fail">>
    /\ store["A"].jo = "fail"
    /\ Len(RunEvents(1)) = 3

----------------------------------------------------------------------------
(* C23: on an accepted request the preamble is the first thing written      *)
(* after the headers and is written once; the keep-alive timer is armed     *)
(* exactly while the headers are written, the response is not ended and the *)
(* close callback has not run, so also while a delegation is pending; and   *)
(* nothing is written before the headers.                                   *)
C23_PreambleAndTimer ==
    \A r \in ReqIds :
        LET F == rq[r].frames IN
        /\ rq[r].status # 200 => (F = << >> /\ ~rq[r].pingArmed)
        /\ rq[r].status = 200 =>
              /\ F # << >>
              /\ F[1].kind = "preamble"
              /\ \A i \in DOMAIN F : i > 1 => F[i].kind # "preamble"
        /\ rq[r].pingArmed <=>
              (rq[r].status = 200 /\ ~rq[r].ended /\ ~rq[r].aborted)

\* witness: the timer fired while the researcher's first delegation was
\* pending: the preamble and one keep-alive, no event yet
C23_Witness ==
    /\ rq[1].pc = "pull"
    /\ rq[1].rstate = "running"
    /\ rq[1].stage = "researcher"
    /\ rq[1].produced = 0
    /\ rq[1].pingArmed
    /\ rq[1].frames = <<PreambleFrame(FALSE), PingFrame(FALSE)>>

----------------------------------------------------------------------------
(* C24: when the loop of a run is Escalated, exactly one data frame has     *)
(* escalate = true; its author is the checker, it is the frame of the last  *)
(* event of the run and the last data frame of the response, which has been *)
(* ended.                                                                   *)
C24_OneEscalateFrame ==
    \A r \in ReqIds :
        rq[r].loop = "Escalated" =>
            LET D == DataFrames(r)
                Esc(f) == f.escalate
            IN  /\ Count(D, Esc) = 1
                /\ D[Len(D)].escalate
                /\ D[Len(D)].author = "checker"
                /\ D[Len(D)].ev = Len(RunEvents(r))
                /\ rq[r].ended

\* witness: the loop escalated in its second pass; six data frames, and a
\* keep-alive written after the last of them
C24_Witness ==
    /\ rq[1].loop = "Escalated"
    /\ Len(DataFrames(1)) = 6
    /\ DataFrames(1)[6].escalate
    /\ IsPing(rq[1].frames[Len(rq[1].frames)])
    /\ ~rq[1].aborted

----------------------------------------------------------------------------
(* C25 as stated: the checker escalates in a pass only on a 'pass' that the *)
(* judge of that run merged in that same pass (between the checker's event  *)
(* of the pass before and its own).  The checker reads whatever the state   *)
(* holds, so a 'pass' left by an earlier run escalates a pass whose judge   *)
(* merged nothing.                                                          *)
C25_EscalatesOnFreshOutputOnly ==
    \A r \in ReqIds :
        LET E == RunEvents(r) IN
        \A i \in DOMAIN E :
            E[i].escalate =>
                \E j \in 1..(i - 1) :
                    /\ IsJudge(E[j])
                    /\ E[j].delta = "pass"
                    /\ \A k \in (j + 1)..(i - 1) : ~IsChecker(E[k])

----------------------------------------------------------------------------
(* C26 as stated: no data frame is written once the close callback has set  *)
(* the abort flag.                                                          *)
C26_Original_NoDataFrameAfterAbort ==
    \A r \in ReqIds :
        \A i \in DOMAIN DataFrames(r) : ~DataFrames(r)[i].aborted

(* C26, amended: the flag is looked at when an event arrives, not after the *)
(* snapshot read.  At most one data frame is written with the flag set: the *)
(* frame of the event the loop had accepted when the callback ran, whose    *)
(* snapshot read was pending; it is the last data frame, and once the flag  *)
(* is set no other data frame is written.                                   *)
C26_State(r) ==
    LET D == DataFrames(r)
        Late(f) == f.aborted
    IN  /\ Count(D, Late) <= 1
        /\ \A i \in DOMAIN D :
              D[i].aborted => (i = Len(D) /\ D[i].ev = rq[r].yieldedAtClose)

C26_Step(r) ==
    (rq[r].aborted /\ rq[r].pc # "snapshot") =>
        DataFrames(r)' = DataFrames(r)

C26_OneFrameAfterAbortAtMost ==
    /\ [](\A r \in ReqIds : C26_State(r))
    /\ [][\A r \in ReqIds : C26_Step(r)]_vars

\* witness: the callback ran while the snapshot of the second event was
\* awaited; its frame was written all the same, and the third event, when it
\* came, ended the stream
C26_Witness ==
    /\ rq[1].yieldedAtClose = 2
    /\ Len(DataFrames(1)) = 2
    /\ DataFrames(1)[2].aborted
    /\ rq[1].produced = 3
    /\ rq[1].reason = "aborted"
    /\ rq[1].ended

----------------------------------------------------------------------------
(* C27: a snapshot read that throws is swallowed: in that same step the     *)
(* frame of the current event is written without judge_output, the event is *)
(* counted and the handler pulls the next event; the response is not ended, *)
(* no error frame is written and the reason stays as it was.                *)
C27_Step(r) ==
    rq'[r].readFailures = rq[r].readFailures + 1 =>
        /\ rq'[r].frames =
              Append(rq[r].frames,
                     DataFrame(rq[r].cur, rq[r].produced, "absent",
                               rq[r].aborted))
        /\ rq'[r].eventCount = rq[r].eventCount + 1
        /\ rq'[r].pc = "pull"
        /\ rq'[r].reason = rq[r].reason
        /\ rq'[r].rstate = rq[r].rstate
        /\ ~rq'[r].ended
        /\ store' = store

C27_SnapshotFailureIsSwallowed == [][\A r \in ReqIds : C27_Step(r)]_vars

\* witness: the read for the judge's event threw, its frame has no
\* judge_output though the session holds 'fail', and the checker's frame
\* followed
C27_Witness ==
    /\ rq[1].readFailures = 1
    /\ Len(DataFrames(1)) = 3
    /\ DataFrames(1)[2].jo = "absent"
    /\ StateAfter(1, 2) = "fail"
    /\ DataFrames(1)[3].jo = "fail"
    /\ rq[1].eventCount = 3

----------------------------------------------------------------------------
(* C28: when getSession or createSession throws during session preparation  *)
(* the request is answered 500 with the JSON error code internal_error and  *)
(* nothing else has happened: no header of a stream, no frame, no timer, no *)
(* close listener, no run, and the store is as it was.                      *)
C28_State(r) ==
    rq[r].pc = "failed500" =>
        rq[r] = [NewRequest(rq[r].query) EXCEPT
                    !.pc = "failed500", !.status = 500,
                    !.jsonError = "internal_error", !.ended = TRUE,
                    !.connClosed = rq[r].connClosed]

C28_Step(r) ==
    (rq[r].pc # "failed500" /\ rq'[r].pc = "failed500") =>
        /\ rq[r].pc \in {"awaitGet", "awaitCreate"}
        /\ RunStreamQueryOk(rq[r].query)
        /\ store' = store

C28_StoreFailureIs500 ==
    /\ [](\A r \in ReqIds : C28_State(r))
    /\ [][\A r \in ReqIds : C28_Step(r)]_vars

\* witness: createSession threw for a session that did not exist
C28_Witness ==
    /\ rq[1].pc = "failed500"
    /\ rq[1].status = 500
    /\ store["A"] = NoSession
    /\ ~rq[1].connClosed

----------------------------------------------------------------------------
(* C29: a request gets one kind of response.  The status, once written, and *)
(* the JSON error, once sent, never change; 400 and 500 come with a JSON    *)
(* error and no frame, 200 with frames and no JSON error; a response that   *)
(* has been ended belongs to a handler that is over, and from then on       *)
(* nothing of the request changes (nothing is written, it is not ended      *)
(* again).                                                                  *)
C29_State(r) ==
    /\ rq[r].status \in {0, 200, 400, 500}
    /\ rq[r].status = 400 <=> rq[r].pc = "rejected"
    /\ rq[r].status = 500 <=> rq[r].pc = "failed500"
    /\ rq[r].status \in {400, 500} <=> rq[r].jsonError # "none"
    /\ rq[r].status \in {400, 500} => (rq[r].frames = << >> /\ rq[r].ended)
    /\ rq[r].status = 200 <=> rq[r].frames # << >>
    /\ rq[r].ended <=> rq[r].pc \in {"rejected", "failed500", "ended"}
    /\ rq[r].pc = "ended" => rq[r].status = 200

C29_Step(r) ==
    /\ rq[r].status # 0 =>
          (rq'[r].status = rq[r].status /\ rq'[r].jsonError = rq[r].jsonError)
    /\ rq[r].ended => rq'[r] = rq[r]

C29_OneKindOfResponse ==
    /\ [](\A r \in ReqIds : C29_State(r))
    /\ [][\A r \in ReqIds : C29_Step(r)]_vars

\* witness: a stream that ended on an error frame after the observer had
\* left: status 200, no JSON error
C29_Witness ==
    /\ rq[1].status = 200
    /\ rq[1].jsonError = "none"
    /\ rq[1].ended
    /\ rq[1].connClosed
    /\ IsError(rq[1].frames[Len(rq[1].frames)])

----------------------------------------------------------------------------
(* C30 as stated: when a stream has ended, eventCount is the number of data *)
(* frames, the reason is 'error' exactly if the sequence threw, 'aborted'   *)
(* exactly if the connection closed before the stream ended, and            *)
(* 'completed' otherwise.  The reason becomes 'aborted' only when an event  *)
(* arrives after the close callback ran, so a stream whose connection       *)
(* closed may end 'completed' or 'error'.                                   *)
C30_ReasonTellsHowTheStreamEnded ==
    \A r \in ReqIds :
        rq[r].pc = "ended" =>
            /\ rq[r].eventCount = Len(DataFrames(r))
            /\ rq[r].reason = "error" <=> rq[r].rstate = "failed"
            /\ rq[r].reason = "aborted" <=> rq[r].connClosed
            /\ rq[r].reason = "completed" <=>
                  (rq[r].rstate # "failed" /\ ~rq[r].connClosed)

----------------------------------------------------------------------------
(* C35 as stated: after any sequence of frames received, connection events  *)
(* and stop actions the log of the web client holds at most 1000 lines.     *)
(* The client cuts the log to its last 1000 lines before it adds the new    *)
(* ones, so the log holds up to 1000 lines plus those of the last frame.    *)
C35_AtMostThousandLines == client.lines <= 1000

----------------------------------------------------------------------------
(* C34: whatever the maxIterations and model parameters of the request      *)
(* carry, the loop keeps its bound of 3: a query with a numeric             *)
(* maxIterations and a string model is accepted, no run makes more than 3   *)
(* body passes, and a run that ends Exhausted has made exactly 3.           *)
C34_ParametersHaveNoEffect ==
    /\ maxIter = 3
    /\ \A r \in ReqIds :
          /\ ( /\ Validated(r)
               /\ LengthsInRange(rq[r].query)
               /\ rq[r].query.maxIterations \in {"1", "3", "5"}
               /\ rq[r].query.model \in {"absent", "string"} ) => Accepted(r)
          /\ Passes(r) <= 3
          /\ rq[r].iter <= 3
          /\ rq[r].loop = "Exhausted" => Passes(r) = 3

\* witness: a request with maxIterations=1 and a model has made three
\* passes and its loop is Exhausted
C34_Witness ==
    /\ rq[1].query.maxIterations = "1"
    /\ rq[1].query.model = "string"
    /\ rq[1].loop = "Exhausted"
    /\ Passes(1) = 3


----------------------------------------------------------------------------
(* C31: the abort flag and the keep-alive timer belong to one request.  The *)
(* step in which the connection of a request closes changes nothing of any  *)
(* other request (its flag, its timer, its frames, its place in the loop);  *)
(* the flag of a request is set, and its reason is 'aborted', only if its   *)
(* own connection closed; and the timer of a request whose headers are sent *)
(* is armed exactly as long as its own flag is unset and its own response   *)
(* is not ended.                                                            *)
C31_State(r) ==
    /\ rq[r].aborted => rq[r].connClosed
    /\ rq[r].reason = "aborted" => rq[r].connClosed
    /\ rq[r].status = 200 =>
          (rq[r].pingArmed <=> (~rq[r].aborted /\ ~rq[r].ended))

C31_Step(r) ==
    (~rq[r].connClosed /\ rq'[r].connClosed) =>
        \A o \in ReqIds \ {r} : rq'[o] = rq[o]

C31_CloseStopsOnlyItsRequest ==
    /\ [](\A r \in ReqIds : C31_State(r))
    /\ [][\A r \in ReqIds : C31_Step(r)]_vars

\* witness: the connection of request 1 closed and its loop was stopped
\* before any event was forwarded, while request 2 got the frames of all
\* the events of its run and a keep-alive, and completed
C31_Witness ==
    /\ rq[1].aborted
    /\ rq[1].reason = "aborted"
    /\ rq[1].eventCount = 0
    /\ ~rq[2].connClosed
    /\ rq[2].reason = "completed"
    /\ rq[2].rstate = "done"
    /\ Len(DataFrames(2)) = 3
    /\ Count(rq[2].frames, IsPing) = 1

----------------------------------------------------------------------------
(* C32: runs on different sessions do not interfere.  A step of one request *)
(* changes neither the other request nor the other request's session; the   *)
(* log of a session holds no event of the other run; and what a run shows   *)
(* is a function of its own events and of the value its own session held    *)
(* when it began: each checker event escalates exactly when the state with  *)
(* the run's earlier events merged is 'pass', each frame carries the state  *)
(* with the events up to its own merged, and the session's state and the    *)
(* run's copy are the state with all the run's events merged.               *)
C32_State(r) ==
    LET key == rq[r].query.key
        E == RunEvents(r)
    IN  /\ store[key] # NoSession =>
              \A i \in DOMAIN store[key].log : store[key].log[i].run \in {0, r}
        /\ \A i \in DOMAIN E :
              IsChecker(E[i]) =>
                  (E[i].escalate <=> (StateAfter(r, i - 1) = "pass"))
        /\ \A i \in DOMAIN DataFrames(r) :
              LET f == DataFrames(r)[i] IN
              /\ f.ev \in DOMAIN E
              /\ \/ f.jo = StateAfter(r, f.ev)
                 \/ f.jo = "absent" /\ rq[r].readFailures > 0
        /\ rq[r].rstate # "notStarted" =>
              /\ SessionJo(store, key) = StateAfter(r, Len(E))
              /\ rq[r].ctxJo = StateAfter(r, Len(E))
              /\ rq[r].startJo = (IF store[key].log[1] = OldEvent
                                  THEN "fail" ELSE "absent")

C32_Step(r) ==
    rq'[r] # rq[r] =>
        \A o \in ReqIds \ {r} :
            /\ rq'[o] = rq[o]
            /\ store'[rq[o].query.key] = store[rq[o].query.key]

C32_DifferentSessionsDoNotInterfere ==
    /\ [](\A r \in ReqIds : C32_State(r))
    /\ [][\A r \in ReqIds : C32_Step(r)]_vars

\* witness: the two runs are over, the run on session "A" Escalated on the
\* 'pass' of its own judge, the run on session "B" Exhausted on a 'fail',
\* and each session holds the value of its own run
C32_Witness ==
    /\ rq[1].loop = "Escalated"
    /\ rq[2].loop = "Exhausted"
    /\ store["A"].jo = "pass"
    /\ store["B"].jo = "fail"
    /\ DataFrames(1)[3].jo = "pass"
    /\ DataFrames(2)[3].jo = "fail"

----------------------------------------------------------------------------
(* C33 as stated: with two runs in flight on one session, a checker event   *)
(* escalates only on a 'pass' that the judge of its own run merged before   *)
(* it, and the judge_output of a frame is a value that an event of the run  *)
(* of that frame merged.  Both runs read the one state of the session, so   *)
(* a run sees what the other run wrote.                                     *)
C33_OwnRunValuesOnly ==
    \A r \in ReqIds :
        LET E == RunEvents(r) IN
        /\ \A i \in DOMAIN E :
              (IsChecker(E[i]) /\ E[i].escalate) =>
                  \E j \in 1..(i - 1) : E[j].delta = "pass"
        /\ \A i \in DOMAIN DataFrames(r) :
              DataFrames(r)[i].jo # "absent" =>
                  \E j \in DOMAIN E : E[j].delta = DataFrames(r)[i].jo

====
